---- MODULE Spec2Model ----
(***************************************************************************)
(* obsid: merging a project entry into the "## Projects" section of a      *)
(* daily note (pkg/obsidian, AppendProjectEntry and its helpers).          *)
(*                                                                         *)
(* Strings are Go strings: a line is a string, the note file is the string *)
(* of its bytes, and prefixes, splitting and joining are computed on the   *)
(* characters.  Indices are Go's (0-based); At(s, i) reads s[i].           *)
(***************************************************************************)
EXTENDS Integers, Sequences, FiniteSets, TLC

\* ------------------------------------------------------------------ bounds

\* Longest initial note, in lines.
MaxLines == 3
\* Number of AppendProjectEntry calls in one behaviour.
MaxCalls == 2

\* Most files and directories below the daily notes directory.
MaxFiles == 3

\* Most `log` commands one after the other.
MaxRuns == 2

\* ------------------------------------------------------------ Go's strings

At(s, i) == s[i + 1]

\* strings.HasPrefix
HasPrefix(s, prefix) ==
    /\ Len(s) >= Len(prefix)
    /\ SubSeq(s, 1, Len(prefix)) = prefix

\* strings.Index for a one-byte separator: the 0-based position of the first
\* occurrence at or after position from, -1 when there is none.
RECURSIVE IndexFrom(_, _, _)
IndexFrom(s, sep, from) ==
    IF from >= Len(s) THEN -1
    ELSE IF SubSeq(s, from + 1, from + 1) = sep THEN from
    ELSE IndexFrom(s, sep, from + 1)

Index(s, sep) == IndexFrom(s, sep, 0)

\* strings.Split(s, sep): one more element than there are separators.
RECURSIVE Split(_, _)
Split(s, sep) ==
    LET i == Index(s, sep)
    IN  IF i = -1
        THEN <<s>>
        ELSE <<SubSeq(s, 1, i)>> \o Split(SubSeq(s, i + 2, Len(s)), sep)

\* strings.Join(elems, sep): no separator after the last element.
RECURSIVE Join(_, _)
Join(elems, sep) ==
    IF Len(elems) = 0 THEN ""
    ELSE IF Len(elems) = 1 THEN elems[1]
    ELSE elems[1] \o sep \o Join(Tail(elems), sep)

\* bufio.ScanLines drops one trailing carriage return of a line.
dropCR(data) ==
    IF Len(data) > 0 /\ SubSeq(data, Len(data), Len(data)) = "\r"
    THEN SubSeq(data, 1, Len(data) - 1)
    ELSE data

\* The read loop of AppendProjectEntry: bufio.Scanner over the file, one
\* element per line, the line terminator stripped; a last line without a
\* terminator is returned, an empty remainder after the last terminator is not.
RECURSIVE ScanLines(_)
ScanLines(data) ==
    IF data = "" THEN <<>>
    ELSE LET i == Index(data, "\n")
         IN  IF i = -1
             THEN <<dropCR(data)>>
             ELSE <<dropCR(SubSeq(data, 1, i))>>
                      \o ScanLines(SubSeq(data, i + 2, Len(data)))

\* ------------------------------------------------------- the merge helpers

\* The loop of findProjectsSection from index i on.
RECURSIVE findProjectsSectionLoop(_, _)
findProjectsSectionLoop(ls, i) ==
    IF i >= Len(ls) THEN -1
    ELSE IF HasPrefix(At(ls, i), "## Projects") THEN i
    ELSE findProjectsSectionLoop(ls, i + 1)

findProjectsSection(ls) == findProjectsSectionLoop(ls, 0)

\* The loop of findProjectInsertionPoint from index i on.
RECURSIVE findProjectInsertionPointLoop(_, _, _)
findProjectInsertionPointLoop(ls, i, name) ==
    IF i >= Len(ls) THEN Len(ls)
    ELSE IF HasPrefix(At(ls, i), "### " \o name) THEN i
    ELSE IF HasPrefix(At(ls, i), "## ") THEN i
    ELSE findProjectInsertionPointLoop(ls, i + 1, name)

\* A variant that never looks for an existing entry: it stops at the next
\* section only.
RECURSIVE nextSectionLoop(_, _)
nextSectionLoop(ls, i) ==
    IF i >= Len(ls) THEN Len(ls)
    ELSE IF HasPrefix(At(ls, i), "## ") THEN i
    ELSE nextSectionLoop(ls, i + 1)

findProjectInsertionPointNoLookup(ls, pIndex, name) ==
    nextSectionLoop(ls, pIndex + 1)

findProjectInsertionPoint(ls, pIndex, name) ==
    findProjectInsertionPointLoop(ls, pIndex + 1, name)

formatProjectEntry(name, body) == "### " \o name \o "\n" \o body

\* The condition of insertLines' first branch: the index is on a level-3
\* heading, so an existing entry is replaced.
replacesEntry(ls, index) ==
    index < Len(ls) /\ HasPrefix(At(ls, index), "### ")

\* The loop of insertLines that looks for the end of the existing entry.
RECURSIVE entryEndLoop(_, _)
entryEndLoop(ls, endIndex) ==
    IF endIndex >= Len(ls) THEN endIndex
    ELSE IF \/ HasPrefix(At(ls, endIndex), "### ")
            \/ HasPrefix(At(ls, endIndex), "## ")
         THEN endIndex
         ELSE entryEndLoop(ls, endIndex + 1)

\* A variant that also takes a blank line for the end of the entry.
RECURSIVE entryEndAtBlankLoop(_, _)
entryEndAtBlankLoop(ls, endIndex) ==
    IF endIndex >= Len(ls) THEN endIndex
    ELSE IF \/ HasPrefix(At(ls, endIndex), "### ")
            \/ HasPrefix(At(ls, endIndex), "## ")
            \/ At(ls, endIndex) = ""
         THEN endIndex
         ELSE entryEndAtBlankLoop(ls, endIndex + 1)

entryEndAtBlank(ls, index) == entryEndAtBlankLoop(ls, index + 1)

\* The end of the entry that starts at index: the next line that starts with
\* "### " or "## ", or the end of the lines.
entryEnd(ls, index) == entryEndLoop(ls, index + 1)

insertLines(ls, index, entry) ==
    IF replacesEntry(ls, index)
    THEN SubSeq(ls, 1, index) \o entry
             \o SubSeq(ls, entryEnd(ls, index) + 1, Len(ls))
    ELSE SubSeq(ls, 1, index) \o entry \o SubSeq(ls, index + 1, Len(ls))

\* The lines after "Find or create Projects section".
withProjectsSection(ls) ==
    IF findProjectsSection(ls) = -1
    THEN ls \o <<"", "## Projects", "">>
    ELSE ls

\* A variant that takes the length, not the last index, for a fresh section.
sectionIndexPastEnd(ls) ==
    IF findProjectsSection(ls) = -1
    THEN Len(withProjectsSection(ls))
    ELSE findProjectsSection(ls)

sectionIndex(ls) ==
    IF findProjectsSection(ls) = -1
    THEN Len(withProjectsSection(ls)) - 1
    ELSE findProjectsSection(ls)

\* The in-memory part of AppendProjectEntry: from the lines read to the lines
\* written.
MergeEntry(ls, name, body) ==
    LET sl == withProjectsSection(ls)
        ix == findProjectInsertionPoint(sl, sectionIndex(ls), name)
    IN  insertLines(sl, ix, Split(formatProjectEntry(name, body), "\n"))

\* ------------------------------------------------------- dates and layouts

\* The date formats of the catalog, in the order of FindExistingDailyNote.
formats ==
    << "YYYY-MM-DD", "YYYY-MM-DD-dddd", "YYYY-MM-DD dddd", "DD-MM-YYYY",
       "MM-DD-YYYY", "MM-DD-YY", "YYYY/MM/DD", "MMMM DD, YYYY", "DD MMMM YYYY",
       "YY-MM-DD" >>

Formats == { formats[i] : i \in 1..Len(formats) }

\* strings.ReplaceAll for a non-empty old.
RECURSIVE ReplaceAll(_, _, _)
ReplaceAll(s, old, new) ==
    IF s = "" THEN ""
    ELSE IF HasPrefix(s, old)
         THEN new \o ReplaceAll(SubSeq(s, Len(old) + 1, Len(s)), old, new)
         ELSE SubSeq(s, 1, 1) \o ReplaceAll(SubSeq(s, 2, Len(s)), old, new)

\* The switch of convertDateFormatToGo and, for a format outside the catalog,
\* the replacements of its default branch.
convertDateFormatToGo(format) ==
    CASE format = "YYYY-MM-DD-dddd" -> "2006-01-02-Monday"
      [] format = "YYYY-MM-DD"      -> "2006-01-02"
      [] format = "DD-MM-YYYY"      -> "02-01-2006"
      [] format = "MM-DD-YYYY"      -> "01-02-2006"
      [] format = "MM-DD-YY"        -> "01-02-06"
      [] format = "YYYY/MM/DD"      -> "2006/01/02"
      [] format = "MMMM DD, YYYY"   -> "January 02, 2006"
      [] format = "DD MMMM YYYY"    -> "02 January 2006"
      [] format = "YYYY-MM-DD dddd" -> "2006-01-02 Monday"
      [] format = "YY-MM-DD"        -> "06-01-02"
      [] OTHER ->
            ReplaceAll(ReplaceAll(ReplaceAll(ReplaceAll(ReplaceAll(ReplaceAll(
                format, "YYYY", "2006"), "MM", "01"), "DD", "02"),
                "dddd", "Monday"), "MMMM", "January"), "YY", "06")

Digits == "0123456789"

\* The decimal digit of n, 0 <= n <= 9.
Digit(n) == SubSeq(Digits, n + 1, n + 1)

\* n in two and in four decimal digits, zero padded.
Pad2(n) == Digit((n \div 10) % 10) \o Digit(n % 10)

Pad4(n) == Pad2(n \div 100) \o Pad2(n % 100)

MonthNames ==
    << "January", "February", "March", "April", "May", "June", "July",
       "August", "September", "October", "November", "December" >>

\* time.Time.Format for the layout elements in use: 2006, 06, 01, 02, 2,
\* January and Monday; every other byte is copied.
RECURSIVE Format(_, _)
Format(date, layout) ==
    LET rest(n) == Format(date, SubSeq(layout, n + 1, Len(layout)))
    IN  IF layout = "" THEN ""
        ELSE IF HasPrefix(layout, "January")
             THEN MonthNames[date.month] \o rest(7)
        ELSE IF HasPrefix(layout, "Monday") THEN date.weekday \o rest(6)
        ELSE IF HasPrefix(layout, "2006") THEN Pad4(date.year) \o rest(4)
        ELSE IF HasPrefix(layout, "01") THEN Pad2(date.month) \o rest(2)
        ELSE IF HasPrefix(layout, "02") THEN Pad2(date.day) \o rest(2)
        ELSE IF HasPrefix(layout, "06") THEN Pad2(date.year % 100) \o rest(2)
        ELSE IF HasPrefix(layout, "2")
             THEN (IF date.day < 10 THEN Digit(date.day) ELSE Pad2(date.day)) \o rest(1)
        ELSE SubSeq(layout, 1, 1) \o rest(1)

\* The file stem of a date under a catalog format.
Stem(format, date) == Format(date, convertDateFormatToGo(format))

\* ---------------------------------------------------- the filename patterns

Uppers == "ABCDEFGHIJKLMNOPQRSTUVWXYZ"

Lowers == "abcdefghijklmnopqrstuvwxyz"

\* The byte c occurs in the string set.
OneOf(c, set) == \E i \in 1..Len(set) : SubSeq(set, i, i) = c

\* The character classes of the patterns: \d, \w, [A-Z], [a-z]; any other
\* class is the byte itself.
InClass(c, cls) ==
    CASE cls = "d" -> OneOf(c, Digits)
      [] cls = "w" -> OneOf(c, Digits) \/ OneOf(c, Uppers) \/ OneOf(c, Lowers) \/ c = "_"
      [] cls = "U" -> OneOf(c, Uppers)
      [] cls = "l" -> OneOf(c, Lowers)
      [] OTHER     -> c = cls

\* A pattern is a sequence of atoms: a class repeated min to max times, max -1
\* for no upper limit.
Rep(cls, min, max) == [cls |-> cls, min |-> min, max |-> max]

Lit(c) == Rep(c, 1, 1)

\* regexp.MatchString for an anchored pattern: the atoms from the k-th on match
\* the bytes of s from offset pos to the end.
RECURSIVE MatchFrom(_, _, _, _)
MatchFrom(re, k, s, pos) ==
    IF k > Len(re) THEN pos = Len(s)
    ELSE LET a    == re[k]
             most == IF a.max = -1 \/ a.max > Len(s) - pos THEN Len(s) - pos ELSE a.max
         IN  \E n \in a.min..most :
                 /\ \A j \in 1..n : InClass(SubSeq(s, pos + j, pos + j), a.cls)
                 /\ MatchFrom(re, k + 1, s, pos + n)

MatchString(re, s) == MatchFrom(re, 1, s, 0)

\* The pattern map of detectDateFormatFromFiles: pattern and format.
patterns ==
    { << << Rep("d", 4, 4), Lit("-"), Rep("d", 2, 2), Lit("-"), Rep("d", 2, 2),
            Lit("-"), Rep("w", 1, -1) >>, "YYYY-MM-DD-dddd" >>,
      << << Rep("d", 4, 4), Lit("-"), Rep("d", 2, 2), Lit("-"), Rep("d", 2, 2),
            Lit(" "), Rep("w", 1, -1) >>, "YYYY-MM-DD dddd" >>,
      << << Rep("d", 4, 4), Lit("-"), Rep("d", 2, 2), Lit("-"), Rep("d", 2, 2) >>,
         "YYYY-MM-DD" >>,
      << << Rep("d", 4, 4), Lit("/"), Rep("d", 2, 2), Lit("/"), Rep("d", 2, 2) >>,
         "YYYY/MM/DD" >>,
      << << Rep("U", 1, 1), Rep("l", 1, -1), Lit(" "), Rep("d", 1, 2), Lit(","),
            Lit(" "), Rep("d", 4, 4) >>, "MMMM DD, YYYY" >>,
      << << Rep("d", 1, 2), Lit(" "), Rep("U", 1, 1), Rep("l", 1, -1), Lit(" "),
            Rep("d", 4, 4) >>, "DD MMMM YYYY" >>,
      << << Rep("d", 2, 2), Lit("-"), Rep("d", 2, 2), Lit("-"), Rep("d", 2, 2) >>,
         "YY-MM-DD" >>,
      << << Rep("d", 1, 2), Lit("-"), Rep("d", 1, 2), Lit("-"), Rep("d", 2, 2) >>,
         "MM-DD-YY" >> }

\* A variant of the ambiguous shape that also takes a year of two digits.
ambiguousPatternShortYear ==
    << Rep("d", 1, 2), Lit("-"), Rep("d", 1, 2), Lit("-"), Rep("d", 2, 4) >>

\* The pattern of the ambiguous MM-DD-YYYY / DD-MM-YYYY shape.
ambiguousPattern ==
    << Rep("d", 1, 2), Lit("-"), Rep("d", 1, 2), Lit("-"), Rep("d", 4, 4) >>

\* The inner loop over the pattern map for one filename.  A Go map is ranged
\* over in an order that changes from one loop to the next, so the pattern
\* that matches first is any pattern that matches; "" when none does.
firstMatches(filename) ==
    LET hits == { p[2] : p \in { q \in patterns : MatchString(q[1], filename) } }
    IN  IF hits = {} THEN {""} ELSE hits

\* The pattern map of detectDateFormatFromSingleFile: pattern and format.
singlePatterns ==
    { << << Rep("d", 4, 4), Lit("-"), Rep("d", 2, 2), Lit("-"), Rep("d", 2, 2),
            Lit("-"), Rep("w", 1, -1) >>, "YYYY-MM-DD-dddd" >>,
      << << Rep("d", 4, 4), Lit("-"), Rep("d", 2, 2), Lit("-"), Rep("d", 2, 2),
            Lit(" "), Rep("w", 1, -1) >>, "YYYY-MM-DD dddd" >>,
      << << Rep("d", 4, 4), Lit("-"), Rep("d", 2, 2), Lit("-"), Rep("d", 2, 2) >>,
         "YYYY-MM-DD" >>,
      << << Rep("d", 2, 2), Lit("-"), Rep("d", 2, 2), Lit("-"), Rep("d", 4, 4) >>,
         "DD-MM-YYYY" >>,
      << << Rep("d", 1, 2), Lit("-"), Rep("d", 1, 2), Lit("-"), Rep("d", 4, 4) >>,
         "MM-DD-YYYY" >>,
      << << Rep("d", 1, 2), Lit("-"), Rep("d", 1, 2), Lit("-"), Rep("d", 2, 2) >>,
         "MM-DD-YY" >>,
      << << Rep("d", 4, 4), Lit("/"), Rep("d", 2, 2), Lit("/"), Rep("d", 2, 2) >>,
         "YYYY/MM/DD" >>,
      << << Rep("U", 1, 1), Rep("l", 1, -1), Lit(" "), Rep("d", 1, 2), Lit(","),
            Lit(" "), Rep("d", 4, 4) >>, "MMMM DD, YYYY" >>,
      << << Rep("d", 1, 2), Lit(" "), Rep("U", 1, 1), Rep("l", 1, -1), Lit(" "),
            Rep("d", 4, 4) >>, "DD MMMM YYYY" >>,
      << << Rep("d", 2, 2), Lit("-"), Rep("d", 2, 2), Lit("-"), Rep("d", 2, 2) >>,
         "YY-MM-DD" >> }

\* What detectDateFormatFromSingleFile can return for the filename: the
\* format of the pattern the range over the map comes to first among those
\* that match, which is any of them; "" when none matches.
detectDateFormatFromSingleFile(filename) ==
    LET hits == { p[2] : p \in { q \in singlePatterns : MatchString(q[1], filename) } }
    IN  IF hits = {} THEN {""} ELSE hits

\* fmt.Sscanf(s, "%d", &n) on a string without sign: the value of the leading
\* digits, n left at 0 when there is none.
RECURSIVE ScanInt(_, _)
ScanInt(s, n) ==
    IF s = "" \/ ~OneOf(SubSeq(s, 1, 1), Digits) THEN n
    ELSE ScanInt(SubSeq(s, 2, Len(s)),
                 10 * n + (CHOOSE d \in 0..9 : Digit(d) = SubSeq(s, 1, 1)))

\* The evidence of one filename: does the first, does the second number
\* exceed 12.
firstOver12(filename) ==
    LET parts == Split(filename, "-")
    IN  Len(parts) = 3 /\ ScanInt(parts[1], 0) > 12

secondOver12(filename) ==
    LET parts == Split(filename, "-")
    IN  Len(parts) = 3 /\ ScanInt(parts[2], 0) > 12

\* A variant that decides for DD-MM-YYYY on equal evidence.
resolveAmbiguousDateFormatTieDDMM(filenames) ==
    IF Len(SelectSeq(filenames, firstOver12)) >= Len(SelectSeq(filenames, secondOver12))
    THEN "DD-MM-YYYY"
    ELSE "MM-DD-YYYY"

resolveAmbiguousDateFormat(filenames) ==
    LET ddmmCount == Len(SelectSeq(filenames, firstOver12))
        mmddCount == Len(SelectSeq(filenames, secondOver12))
    IN  IF ddmmCount > mmddCount THEN "DD-MM-YYYY"
        ELSE IF mmddCount > ddmmCount THEN "MM-DD-YYYY"
        ELSE "MM-DD-YYYY"

\* The number of votes a format has in a sequence of votes.
countOf(votes, format) ==
    LET Is(v) == v = format
    IN  Len(SelectSeq(votes, Is))

\* A variant that gives the ambiguous files to both formats of the shape.
tallyBoth(votes, n, format) ==
    [f \in Formats |->
        countOf(votes, f) + IF n > 0 /\ f \in {"DD-MM-YYYY", "MM-DD-YYYY"} THEN n ELSE 0]

\* patternCounts after the loop over the filenames and after the n ambiguous
\* files were added to the format they were resolved to; a format that is no
\* key of the map counts 0.
tally(votes, n, format) ==
    [f \in Formats |-> countOf(votes, f) + IF n > 0 /\ f = format THEN n ELSE 0]

\* The loop "Find the most common format" over the keys left to visit, in
\* every order the range over the map may take: the formats it can end with.
RECURSIVE mostCommon(_, _, _, _)
mostCommon(counts, keys, maxCount, bestFormat) ==
    IF keys = {} THEN {bestFormat}
    ELSE UNION { IF counts[k] > maxCount
                 THEN mostCommon(counts, keys \ {k}, counts[k], k)
                 ELSE mostCommon(counts, keys \ {k}, maxCount, bestFormat)
                 : k \in keys }

bestFormats(counts) ==
    mostCommon(counts, { f \in Formats : counts[f] > 0 }, 0, "YYYY-MM-DD")

\* ------------------------------------------------------------------ inputs

\* Lines an initial note is made of: text, a blank line and headings of
\* levels 1 to 3, two of which extend another one.
LineAlphabet ==
    { "", "text", "# Top", "## Projects", "## Projects Archive", "## Notes",
      "### Foo", "### Foobar" }

Docs == UNION { [1..n -> LineAlphabet] : n \in 0..MaxLines }

\* The replacement scenario of the specification.
ScenarioDoc ==
    << "# Today", "", "## Projects", "", "### Alpha", "old body", "", "## Notes" >>

\* A note file is its lines joined by line feeds, with or without a final
\* line terminator.
InitialNotes ==
    { Join(d, "\n") \o t : d \in Docs, t \in {"", "\n"} }
        \cup { Join(ScenarioDoc, "\n") }

\* Project names (the repository's directory name or --project).
ProjectNames == { "Foo", "Alpha" }

\* Entry bodies as FormatProjectEntry renders them: a summary line, list
\* items and a tag, closed by a blank line; no line is a level-2 or level-3
\* heading.
Bodies == { "new body", "**1h**\n\n" }

\* The day the commands run and an earlier day.
today == [year |-> 2025, month |-> 7, day |-> 19, weekday |-> "Saturday"]

earlier == [year |-> 2025, month |-> 7, day |-> 3, weekday |-> "Thursday"]

\* Paths below the daily notes directory: the notes of the two days under
\* every catalog format (YYYY/MM/DD puts a note two directories down), a
\* note that is no date and a file that is no note.
NotePaths ==
    { Stem(f, d) \o ".md" : f \in Formats, d \in {today, earlier} }
        \cup { "notes.md", "todo.txt" }

\* The sets of at most n elements of S.
RECURSIVE SubsetsUpTo(_, _)
SubsetsUpTo(S, n) ==
    IF n = 0 THEN { {} }
    ELSE LET smaller == SubsetsUpTo(S, n - 1)
         IN  smaller \cup { T \cup {x} : T \in smaller, x \in S }

\* The bytes of a daily note before the command runs.
NoteBytes == "# Note\n\n## Projects\n"

\* The daily notes directory: the files below it and their bytes.
Vaults == { [path \in S |-> NoteBytes] : S \in SubsetsUpTo(NotePaths, MaxFiles) }

\* The date formats a configuration or the --date-format flag gives: the
\* default of init, an ambiguous one and the one with subdirectories.
ConfiguredFormats == { "YYYY-MM-DD-dddd", "MM-DD-YYYY", "YYYY/MM/DD" }

\* The date formats of the configuration over several commands: one of the
\* catalog and one that is not.
RunFormats == { "YYYY-MM-DD", "YYYY.MM.DD" }

\* The files of the directory before the first of several commands.
RunPaths == { "2025-07-19.md", "07-03-2025.md", "notes.md" }

\* strings.Contains.
Contains(s, substr) ==
    \E i \in 0..(Len(s) - Len(substr)) : SubSeq(s, i + 1, i + Len(substr)) = substr

\* strings.LastIndex for a one-byte separator, -1 when there is none.
RECURSIVE LastIndex(_, _)
LastIndex(s, sep) ==
    IF s = "" THEN -1
    ELSE IF SubSeq(s, Len(s), Len(s)) = sep THEN Len(s) - 1
    ELSE LastIndex(SubSeq(s, 1, Len(s) - 1), sep)

\* filepath.Dir and filepath.Base of a clean relative path of a file.
Dir(path) ==
    IF LastIndex(path, "/") = -1 THEN "." ELSE SubSeq(path, 1, LastIndex(path, "/"))

Base(path) == SubSeq(path, LastIndex(path, "/") + 2, Len(path))

\* Paths of files below the vault, relative to it: notes of the two days
\* under several formats in two directories and at the root, a note whose
\* name holds the name of a month, and files that are no daily notes.
ScanPaths ==
    { "Daily Notes/2025-07-19.md", "Daily Notes/07-19-2025.md",
      "Journal/19-07-2025.md", "Journal/03-07-2025.md", "July 19, 2025.md",
      "7-19-25.md", "Ideas/Mayhem.md", "README.md", "Journal/todo.txt" }

\* Every path that can be below the daily notes directory.
KnownPaths ==
    NotePaths \cup RunPaths \cup { Stem(f, today) \o ".md" : f \in RunFormats }
        \cup { Base(path) : path \in ScanPaths }

\* The vault `init` scans: the files below it and their bytes.
ScanVaults == { [path \in S |-> NoteBytes] : S \in SubsetsUpTo(ScanPaths, MaxFiles) }

RunVaults == { [path \in S |-> NoteBytes] : S \in SubsetsUpTo(RunPaths, MaxFiles) }

\* The repositories a command finds, in the order it logs them, each with
\* its name and whether it has commits in the time frame.
RepoLists ==
    { << [name |-> "Foobar", commits |-> TRUE], [name |-> "Foo", commits |-> TRUE] >>,
      << [name |-> "Foo", commits |-> TRUE], [name |-> "Alpha", commits |-> FALSE] >>,
      << [name |-> "Alpha", commits |-> TRUE] >> }

\* ------------------------------------------------------------ the directory

\* strings.HasSuffix and strings.TrimSuffix.
HasSuffix(s, suffix) ==
    Len(s) >= Len(suffix) /\ SubSeq(s, Len(s) - Len(suffix) + 1, Len(s)) = suffix

TrimSuffix(s, suffix) ==
    IF HasSuffix(s, suffix) THEN SubSeq(s, 1, Len(s) - Len(suffix)) ELSE s

\* The entry os.ReadDir gives for a file at a path below the directory: the
\* file itself, or the subdirectory the path starts with.
DirEntry(path) ==
    IF Index(path, "/") = -1
    THEN [name |-> path, isDir |-> FALSE]
    ELSE [name |-> SubSeq(path, 1, Index(path, "/")), isDir |-> TRUE]

\* The entries of the paths the directory can hold, worked out once.
dirEntries == [path \in KnownPaths |-> DirEntry(path)]

\* The elements of a set as a sequence.
RECURSIVE SeqOf(_)
SeqOf(S) ==
    IF S = {} THEN <<>>
    ELSE LET x == CHOOSE y \in S : TRUE
         IN  <<x>> \o SeqOf(S \ {x})

\* os.ReadDir of the daily notes directory holding the files fs: one entry
\* for each name.
ReadDir(fs) == SeqOf({ dirEntries[path] : path \in DOMAIN fs })

\* The loop "Collect .md files that look like dates".
RECURSIVE collectDateFiles(_)
collectDateFiles(entries) ==
    IF entries = <<>> THEN <<>>
    ELSE LET file == Head(entries)
         IN  (IF ~file.isDir /\ HasSuffix(file.name, ".md")
              THEN << TrimSuffix(file.name, ".md") >>
              ELSE <<>>) \o collectDateFiles(Tail(entries))

\* ---------------------------------------------------------------- detection

\* The filename has the ambiguous shape.
matchesAmbiguous(filename) == MatchString(ambiguousPattern, filename)

\* The outcome of the pattern tests for the names the directory can hold,
\* worked out once.
matched ==
    [filename \in { TrimSuffix(DirEntry(path).name, ".md") : path \in KnownPaths } |->
        [first |-> firstMatches(filename), ambiguous |-> matchesAmbiguous(filename)]]

isAmbiguous(filename) == matched[filename].ambiguous

\* The votes the filenames can give: for each filename one of its first
\* matches.
RECURSIVE voteSeqs(_)
voteSeqs(filenames) ==
    IF filenames = <<>> THEN { <<>> }
    ELSE { <<v>> \o rest : v \in matched[Head(filenames)].first,
                           rest \in voteSeqs(Tail(filenames)) }

\* What detectDateFormatFromFiles can return for the filenames, with its
\* locals.  The test `if !matched` reads the outer `matched`, which the inner
\* `matched` of the pattern loop shadows and which stays false: every filename
\* is tested against the ambiguous shape, whatever it voted for.
detectDateFormatFromFiles(filenames) ==
    UNION { { [dateFiles |-> filenames, votes |-> vs, ambiguousFiles |-> ambiguous,
               patternCounts |-> counts, format |-> best, err |-> ""]
                : best \in bestFormats(counts) }
            : <<vs, ambiguous, counts>> \in
                  { <<w, amb, tally(w, Len(amb), resolveAmbiguousDateFormat(amb))>>
                      : w \in voteSeqs(filenames),
                        amb \in { SelectSeq(filenames, isAmbiguous) } } }

\* A variant that returns the fallback format and no error.
detectFailedToFallback(filenames, err) ==
    [dateFiles |-> filenames, votes |-> <<>>, ambiguousFiles |-> <<>>,
     patternCounts |-> [f \in Formats |-> 0], format |-> "YYYY-MM-DD", err |-> ""]

\* A return of DetectDateFormat before the filenames are looked at.
detectFailed(filenames, err) ==
    [dateFiles |-> filenames, votes |-> <<>>, ambiguousFiles |-> <<>>,
     patternCounts |-> [f \in Formats |-> 0], format |-> "", err |-> err]

\* What DetectDateFormat can return for the daily notes directory: the format
\* and the error ("" for nil), with the locals.
DetectDateFormat(exists, fs) ==
    IF ~exists THEN { detectFailed(<<>>, "daily notes directory not found") }
    ELSE UNION { IF names = <<>>
                 THEN { detectFailed(names, "no daily note files found") }
                 ELSE detectDateFormatFromFiles(names)
                 : names \in { collectDateFiles(ReadDir(fs)) } }

\* ------------------------------------------------------------------- state

VARIABLES
    initial,        \* the bytes of the file before the first call
    note,           \* the bytes of the daily note file
    prev,           \* the bytes of the file when the last call opened it
    scanned,        \* the lines the last call read
    lines,          \* `lines` after the Projects section was found or added
    projectsIndex,  \* the last call's projectsIndex
    insertIndex,    \* the last call's insertIndex
    newLines,       \* the lines the last call wrote
    projectName,    \* the last call's projectName
    content,        \* the last call's content
    calls,          \* number of calls made
    dirExists,      \* the daily notes directory exists
    files,          \* the files below the daily notes directory and their bytes
    configured,     \* the date format the command was started with
    dateFormat,     \* the date format in use: runInit's dateFormat, vault.DateFormat
    createNote,     \* the --create-note flag
    dateFiles,      \* DetectDateFormat's dateFiles
    votes,          \* for each of dateFiles the format it voted for, "" for none
    ambiguousFiles, \* detectDateFormatFromFiles' ambiguousFiles
    patternCounts,  \* detectDateFormatFromFiles' patternCounts
    detectedFormat, \* the format DetectDateFormat returned
    detectErr,      \* the error DetectDateFormat returned, "" for nil
    foundPath,      \* the path FindExistingDailyNote returned, "" for none
    notePath,       \* the path AppendProjectEntry opened
    logErr,         \* the error runLog returned, "" for nil
    ran,            \* the command that ran, "" before
    procs,          \* the invocations of AppendProjectEntry that run side by side
    seen,           \* the bytes another program last read from the note file
    wrote,          \* the contents a call of os.WriteFile has written in full
    order,          \* the invocations in the order their writes ended
    runs,           \* number of `log` commands started
    repos,          \* the repositories the command has still to log
    loggedCount,    \* runLog's loggedCount
    logged,         \* the names of the repositories counted in loggedCount
    created,        \* the paths CreateDailyNote wrote, each with whether it existed
    suggestions,    \* the paths scanVaultForDailyNotes found
    detectedFormats,\* detectedFormat of each suggestion, "" for none
    mostCommonDir,  \* detectDailyNotesConfig's directory
    mostCommonFormat,\* detectDailyNotesConfig's format
    sampleIndex     \* the suggestion whose stem the vault detector was given alone

mergeVars == << initial, note, prev, scanned, lines, projectsIndex, insertIndex,
               newLines, projectName, content, calls >>

detectVars == << dateFiles, votes, ambiguousFiles, patternCounts, detectedFormat,
                detectErr >>

vaultVars == << dirExists, files, configured, dateFormat, createNote, detectVars,
               foundPath, notePath, logErr, ran >>

ioVars == << procs, seen, wrote, order >>

runVars == << runs, repos, loggedCount, logged, created >>

scanVars == << suggestions, detectedFormats, mostCommonDir, mostCommonFormat,
              sampleIndex >>

vars == << mergeVars, vaultVars, ioVars, runVars, scanVars >>

\* No scan of a vault.
noScan ==
    /\ suggestions = << >>
    /\ detectedFormats = << >>
    /\ mostCommonDir = ""
    /\ mostCommonFormat = ""
    /\ sampleIndex = 0


\* No command over several repositories.
noRuns ==
    /\ runs = 0
    /\ repos = << >>
    /\ loggedCount = 0
    /\ logged = << >>
    /\ created = << >>

\* No invocations side by side.
noProcs ==
    /\ procs = << >>
    /\ seen = ""
    /\ wrote = {}
    /\ order = << >>

\* No detection has run.
noDetection ==
    /\ dateFiles = <<>>
    /\ votes = <<>>
    /\ ambiguousFiles = <<>>
    /\ patternCounts = [f \in Formats |-> 0]
    /\ detectedFormat = ""
    /\ detectErr = ""

\* The merge is looked at on its own: no vault, no command.
noVault ==
    /\ dirExists = FALSE
    /\ files = << >>
    /\ configured = ""
    /\ dateFormat = ""
    /\ createNote = FALSE
    /\ noDetection
    /\ foundPath = ""
    /\ notePath = ""
    /\ logErr = ""
    /\ ran = ""

\* The commands are looked at on their own: the note of the merge is empty.
noMerge ==
    /\ initial = ""
    /\ note = ""
    /\ prev = ""
    /\ scanned = <<>>
    /\ lines = <<>>
    /\ projectsIndex = -1
    /\ insertIndex = 0
    /\ newLines = <<>>
    /\ projectName = ""
    /\ content = ""
    /\ calls = 0

Init ==
    /\ note \in InitialNotes
    /\ initial = note
    /\ prev = ""
    /\ scanned = <<>>
    /\ lines = <<>>
    /\ projectsIndex = -1
    /\ insertIndex = 0
    /\ newLines = <<>>
    /\ projectName = ""
    /\ content = ""
    /\ calls = 0
    /\ noVault
    /\ noProcs
    /\ noRuns
    /\ noScan

\* One call: the file is read, the entry merged into its lines and the file
\* written back whole.  The locals are bound in the order the code assigns
\* them.
AppendProjectEntry(name, body) ==
    /\ calls < MaxCalls
    /\ \E read \in { ScanLines(note) } :
       \E sl \in { withProjectsSection(read) }, pi \in { sectionIndex(read) } :
       \E ix \in { findProjectInsertionPoint(sl, pi, name) } :
       \E out \in { insertLines(sl, ix, Split(formatProjectEntry(name, body), "\n")) } :
           /\ prev' = note
           /\ scanned' = read
           /\ lines' = sl
           /\ projectsIndex' = pi
           /\ insertIndex' = ix
           /\ newLines' = out
           /\ note' = Join(out, "\n")
    /\ projectName' = name
    /\ content' = body
    /\ calls' = calls + 1
    /\ UNCHANGED << initial, vaultVars, ioVars, runVars, scanVars >>

Next == \E name \in ProjectNames, body \in Bodies : AppendProjectEntry(name, body)

Spec == Init /\ [][Next]_vars

\* ------------------------------------------------------------------- init

\* The vault a command finds: a daily notes directory that may be missing,
\* with at most MaxFiles files, and the date format given.
InitVault ==
    /\ files \in Vaults
    /\ dirExists \in { e \in BOOLEAN : DOMAIN files # {} => e }
    /\ configured \in ConfiguredFormats
    /\ dateFormat = configured
    /\ noDetection
    /\ foundPath = ""
    /\ notePath = ""
    /\ logErr = ""
    /\ ran = ""
    /\ noMerge
    /\ noProcs

InitInit ==
    /\ InitVault
    /\ noRuns
    /\ noScan
    /\ createNote = FALSE

\* The locals of DetectDateFormat take the values of the return r.
detected(r) ==
    /\ dateFiles' = r.dateFiles
    /\ votes' = r.votes
    /\ ambiguousFiles' = r.ambiguousFiles
    /\ patternCounts' = r.patternCounts
    /\ detectedFormat' = r.format
    /\ detectErr' = r.err

\* `init` without --interactive on an existing vault path: the date format
\* of the flag is replaced by the detected one when detection gives no error,
\* and goes to the configuration file.
runInit ==
    /\ ran = ""
    /\ \E r \in DetectDateFormat(dirExists, files) :
           /\ detected(r)
           /\ dateFormat' = IF r.err = "" THEN r.format ELSE dateFormat
    /\ ran' = "init"
    /\ UNCHANGED << mergeVars, dirExists, files, configured, createNote, foundPath,
                    notePath, logErr, ioVars, runVars, scanVars >>

NextInit == runInit

SpecInit == InitInit /\ [][NextInit]_vars

\* -------------------------------------------------------------------- log

\* GetDailyNotePath below the daily notes directory.
GetDailyNotePath(format, date) == Stem(format, date) \o ".md"

\* The paths of today's note under the catalog formats, worked out once.
todayPath == [f \in Formats \cup RunFormats |-> GetDailyNotePath(f, today)]

\* The loop of FindExistingDailyNote from the i-th format on: the first path
\* of today's note that os.Stat finds, "" when there is none.
RECURSIVE FindExistingDailyNoteLoop(_, _)
FindExistingDailyNoteLoop(fs, i) ==
    IF i > Len(formats) THEN ""
    ELSE IF todayPath[formats[i]] \in DOMAIN fs THEN todayPath[formats[i]]
    ELSE FindExistingDailyNoteLoop(fs, i + 1)

FindExistingDailyNote(fs) == FindExistingDailyNoteLoop(fs, 1)

\* CreateDailyNote: the note of today under the format is written with its
\* title, the directories above it are made.
CreateDailyNote(fs, format) ==
    [path \in DOMAIN fs \cup { todayPath[format] } |->
        IF path = todayPath[format]
        THEN "# " \o Format(today, "Monday, January 2, 2006") \o "\n\n"
        ELSE fs[path]]

\* The entry body of the run.
LoggedBody == "**1h**\n\n"

\* AppendProjectEntry on the file at path: the file is read, merged and
\* written back.
written(fs, path, name, body) ==
    [fs EXCEPT ![path] = Join(MergeEntry(ScanLines(fs[path]), name, body), "\n")]

\* The end of runLog: the entry is appended to today's note under the
\* format fmt in the files fs; the file that is not there cannot be opened.
appendToNote(fs, fmt, name, body) ==
    /\ dateFormat' = fmt
    /\ notePath' = todayPath[fmt]
    /\ IF todayPath[fmt] \in DOMAIN fs
       THEN /\ files' = written(fs, todayPath[fmt], name, body)
            /\ logErr' = ""
       ELSE /\ files' = fs
            /\ logErr' = "could not append to daily note"

\* A variant of the branch `if !exists` that creates the note whatever the
\* flag says.
noteMissingCreates(fmt, name, body) ==
    /\ dirExists' = TRUE
    /\ appendToNote(CreateDailyNote(files, fmt), fmt, name, body)

\* The branch `if !exists`: an error without --create-note, else the note is
\* created under the format fmt and the entry appended to it.
noteMissing(fmt, name, body) ==
    IF ~createNote
    THEN /\ logErr' = "daily note does not exist"
         /\ dateFormat' = fmt
         /\ UNCHANGED << dirExists, files, notePath >>
    ELSE /\ dirExists' = TRUE
         /\ appendToNote(CreateDailyNote(files, fmt), fmt, name, body)

\* From "Check if daily note exists" to the return, for a vault made with the
\* date format fmt: the same lines in runLog and in logSingleRepository.
logToVault(fmt, name, body) ==
    \E found \in { FindExistingDailyNote(files) } :
        /\ foundPath' = found
        /\ IF found = ""
           THEN /\ UNCHANGED detectVars
                /\ noteMissing(fmt, name, body)
           ELSE \E r \in DetectDateFormat(dirExists, files) :
                    /\ detected(r)
                    /\ UNCHANGED dirExists
                    /\ appendToNote(files,
                                    IF r.err = "" /\ r.format # "" /\ r.format # fmt
                                    THEN r.format ELSE fmt,
                                    name, body)

\* `log` in one repository with commits, on a vault path that exists, from
\* "Check if daily note exists" on.
runLog(name, body) ==
    /\ ran = ""
    /\ ran' = "log"
    /\ logToVault(dateFormat, name, body)
    /\ UNCHANGED << mergeVars, configured, createNote, ioVars, runVars, scanVars >>

InitLog ==
    /\ InitVault
    /\ noRuns
    /\ noScan
    /\ createNote \in BOOLEAN

NextLog == \E name \in ProjectNames : runLog(name, LoggedBody)

SpecLog == InitLog /\ [][NextLog]_vars

\* ------------------------------------------------------ several commands

InitRuns ==
    /\ files \in RunVaults
    /\ dirExists \in { e \in BOOLEAN : DOMAIN files # {} => e }
    /\ configured = ""
    /\ dateFormat = ""
    /\ createNote = FALSE
    /\ noDetection
    /\ foundPath = ""
    /\ notePath = ""
    /\ logErr = ""
    /\ ran = ""
    /\ noMerge
    /\ noProcs
    /\ noRuns
    /\ noScan

\* runLog without a path, up to the loop over the repositories: the
\* configuration and the flags are read and the repositories found.
startLog(fmt, create, found) ==
    /\ runs < MaxRuns
    /\ repos = << >>
    /\ runs' = runs + 1
    /\ repos' = found
    /\ loggedCount' = 0
    /\ logged' = << >>
    /\ configured' = fmt
    /\ dateFormat' = fmt
    /\ createNote' = create
    /\ ran' = "log"
    /\ UNCHANGED << mergeVars, ioVars, dirExists, files, detectVars, foundPath,
                    notePath, logErr, created, scanVars >>

\* One turn of the loop "Log each repository": logSingleRepository on the
\* next repository, which returns nil at once without commits, and the count
\* of the repositories it returned nil for.
logSingleRepository ==
    /\ repos # << >>
    /\ repos' = Tail(repos)
    /\ IF ~Head(repos).commits
       THEN /\ loggedCount' = loggedCount + 1
            /\ logged' = Append(logged, Head(repos).name)
            /\ UNCHANGED << dirExists, files, dateFormat, detectVars, foundPath,
                            notePath, logErr, created >>
       ELSE /\ logToVault(configured, Head(repos).name, LoggedBody)
            /\ loggedCount' = IF logErr' = "" THEN loggedCount + 1 ELSE loggedCount
            /\ logged' = IF logErr' = "" THEN Append(logged, Head(repos).name)
                         ELSE logged
            /\ created' = IF foundPath' = "" /\ createNote
                          THEN Append(created,
                                      [path |-> todayPath[configured],
                                       existed |-> todayPath[configured] \in DOMAIN files])
                          ELSE created
    /\ UNCHANGED << mergeVars, ioVars, configured, createNote, ran, runs, scanVars >>

NextRuns ==
    \/ \E fmt \in RunFormats, create \in BOOLEAN, found \in RepoLists :
           startLog(fmt, create, found)
    \/ logSingleRepository

SpecRuns == InitRuns /\ [][NextRuns]_vars

\* ------------------------------------------------------- the scan of init

\* The substrings looksLikeDailyNote looks for.
dailyNotePatterns ==
    { "2025", "2024", "2023",
      "01-", "02-", "03-", "04-", "05-", "06-",
      "07-", "08-", "09-", "10-", "11-", "12-",
      "January", "February", "March", "April", "May", "June",
      "July", "August", "September", "October", "November", "December",
      "Jan", "Feb", "Mar", "Apr", "Jun", "Jul", "Aug", "Sep", "Oct", "Nov", "Dec",
      "Monday", "Tuesday", "Wednesday", "Thursday", "Friday", "Saturday", "Sunday" }

looksLikeDailyNote(filename) ==
    \E pattern \in dailyNotePatterns : Contains(TrimSuffix(filename, ".md"), pattern)

\* scanVaultForDailyNotes: the relative paths of the .md files whose name
\* looks like a daily note.
scanVaultForDailyNotes(fs) ==
    SeqOf({ path \in DOMAIN fs :
              HasSuffix(Base(path), ".md") /\ looksLikeDailyNote(Base(path)) })

\* The loop of detectDailyNotesConfig over the suggestions: what
\* detectedFormat can be for each of them.
RECURSIVE singleVotes(_)
singleVotes(paths) ==
    IF paths = << >> THEN { << >> }
    ELSE { <<v>> \o rest
             : v \in detectDateFormatFromSingleFile(TrimSuffix(Base(Head(paths)), ".md")),
               rest \in singleVotes(Tail(paths)) }

\* dirCounts: the suggestions of each directory, "" for the root.
dirOf(path) == IF Dir(path) = "." THEN "" ELSE Dir(path)

\* The keys a range over a map of counts can leave in the variable of the
\* loop "Find most common": a key of the highest count, whatever the order;
\* "" for an empty map.
mostCommonKeys(counts) ==
    IF DOMAIN counts = {} THEN {""}
    ELSE { k \in DOMAIN counts : \A other \in DOMAIN counts : counts[other] <= counts[k] }

\* The vault `init` scans.
InitScan ==
    /\ files \in ScanVaults
    /\ dirExists = TRUE
    /\ configured = ""
    /\ dateFormat = ""
    /\ createNote = FALSE
    /\ noDetection
    /\ foundPath = ""
    /\ notePath = ""
    /\ logErr = ""
    /\ ran = ""
    /\ noMerge
    /\ noProcs
    /\ noRuns
    /\ noScan

\* setupDailyNotes up to the detected configuration: the scan of the vault,
\* and detectDailyNotesConfig when it found a file.
setupDailyNotes ==
    /\ ran = ""
    /\ ran' = "setup"
    /\ \E found \in { scanVaultForDailyNotes(files) } :
           /\ suggestions' = found
           /\ IF found = << >>
              THEN UNCHANGED << detectedFormats, mostCommonDir, mostCommonFormat >>
              ELSE \E perFile \in singleVotes(found) :
                     LET dirCounts ==
                             [d \in { dirOf(found[i]) : i \in 1..Len(found) } |->
                                 Cardinality({ i \in 1..Len(found) : dirOf(found[i]) = d })]
                         formatCounts ==
                             [f \in { perFile[i] : i \in 1..Len(found) } \ {""} |->
                                 Cardinality({ i \in 1..Len(found) : perFile[i] = f })]
                     IN  /\ detectedFormats' = perFile
                         /\ \E dir \in mostCommonKeys(dirCounts) :
                                mostCommonDir' = IF dir = "" THEN "Daily Notes" ELSE dir
                         /\ mostCommonFormat' \in mostCommonKeys(formatCounts)
    /\ UNCHANGED << mergeVars, dirExists, files, configured, dateFormat, createNote,
                    detectVars, foundPath, notePath, logErr, ioVars, runVars,
                    sampleIndex >>

\* The detector of the vault package on the stem of one suggestion that
\* detectDateFormatFromSingleFile gave a format for, as the only filename.
detectSample(i) ==
    /\ ran = "setup"
    /\ sampleIndex = 0
    /\ detectedFormats[i] # ""
    /\ sampleIndex' = i
    /\ \E r \in detectDateFormatFromFiles(<< TrimSuffix(Base(suggestions[i]), ".md") >>) :
           detected(r)
    /\ UNCHANGED << mergeVars, dirExists, files, configured, dateFormat, createNote,
                    foundPath, notePath, logErr, ran, ioVars, runVars, suggestions,
                    detectedFormats, mostCommonDir, mostCommonFormat >>

NextScan ==
    \/ setupDailyNotes
    \/ \E i \in 1..Len(suggestions) : detectSample(i)

SpecScan == InitScan /\ [][NextScan]_vars

\* ------------------------------------------------- the note file, shared

\* Two invocations of AppendProjectEntry on one note file.
Procs == {1, 2}

\* The project names of the two: one extends the other.
RaceNames == { "Foo", "Foobar" }

\* The entry body of each invocation.
RaceBody == << "**1h**\n\n", "**2h**\n\n" >>

\* The note file before the invocations.
RaceNotes == { "", "# Note\n\n## Projects\n", "# Note\n\n## Projects\n\n## Notes\ntext\n" }

InitRace ==
    /\ note \in RaceNotes
    /\ initial = note
    /\ procs \in { [p \in Procs |->
                      [pc |-> "start", name |-> n[p], body |-> RaceBody[p],
                       lines |-> <<>>, readErr |-> FALSE, over |-> {}, ret |-> ""]]
                   : n \in { m \in [Procs -> RaceNames] : m[1] # m[2] } }
    /\ seen = note
    /\ wrote = {}
    /\ order = << >>
    /\ prev = ""
    /\ scanned = <<>>
    /\ lines = <<>>
    /\ projectsIndex = -1
    /\ insertIndex = 0
    /\ newLines = <<>>
    /\ projectName = ""
    /\ content = ""
    /\ calls = 0
    /\ noVault
    /\ noRuns
    /\ noScan

\* os.Open: the file is opened, or the error is returned.  `over` keeps the
\* invocations that had returned by then.
open(p) ==
    /\ procs[p].pc = "start"
    /\ \E ok \in BOOLEAN :
           procs' = [procs EXCEPT
                        ![p].pc = IF ok THEN "opened" ELSE "returned",
                        ![p].ret = IF ok THEN "" ELSE "open error",
                        ![p].over = { q \in Procs : procs[q].pc = "returned" }]
    /\ UNCHANGED << mergeVars, vaultVars, seen, wrote, order, runVars, scanVars >>

\* The loop over scanner.Scan: the lines of the file as it is now, all of
\* them or, when reading stops with an error, the first k.  scanner.Err is
\* not looked at.
scan(p) ==
    /\ procs[p].pc = "opened"
    /\ \E all \in { ScanLines(note) } :
       \E k \in 0..Len(all) :
           procs' = [procs EXCEPT ![p].pc = "read",
                                  ![p].lines = SubSeq(all, 1, k),
                                  ![p].readErr = k < Len(all)]
    /\ UNCHANGED << mergeVars, vaultVars, seen, wrote, order, runVars, scanVars >>

\* os.WriteFile opens the file with O_TRUNC: it is empty from then on.
truncate(p) ==
    /\ procs[p].pc = "read"
    /\ procs' = [procs EXCEPT ![p].pc = "truncated"]
    /\ note' = ""
    /\ UNCHANGED << initial, prev, scanned, lines, projectsIndex, insertIndex,
                    newLines, projectName, content, calls, vaultVars, seen, wrote,
                    order, runVars, scanVars >>

\* os.WriteFile writes the merged lines from the start of the file, over
\* what another invocation may have written since, and returns.
write(p) ==
    /\ procs[p].pc = "truncated"
    /\ \E data \in { Join(MergeEntry(procs[p].lines, procs[p].name, procs[p].body),
                          "\n") } :
           /\ note' = data \o SubSeq(note, Len(data) + 1, Len(note))
           /\ wrote' = wrote \cup { data }
    /\ procs' = [procs EXCEPT ![p].pc = "returned", ![p].ret = "nil"]
    /\ order' = Append(order, p)
    /\ UNCHANGED << initial, prev, scanned, lines, projectsIndex, insertIndex,
                    newLines, projectName, content, calls, vaultVars, seen, runVars, scanVars >>

\* Another program reads the note file.
observe ==
    /\ \E p \in Procs : procs[p].pc # "returned"
    /\ seen' = note
    /\ UNCHANGED << mergeVars, vaultVars, procs, wrote, order, runVars, scanVars >>

NextRace == \/ \E p \in Procs : open(p) \/ scan(p) \/ truncate(p) \/ write(p)
            \/ observe

SpecRace == InitRace /\ [][NextRace]_vars

\* ------------------------------------------- the heading grammar of the spec

Min(a, b) == IF a < b THEN a ELSE b

IsLevel12(l) == HasPrefix(l, "# ") \/ HasPrefix(l, "## ")

IsLevel123(l) == IsLevel12(l) \/ HasPrefix(l, "### ")

\* The 0-based index of the first line after index from that satisfies Stop,
\* or the number of lines.
FirstAfter(ls, from, Stop(_)) ==
    LET hits == { i \in (from + 1)..(Len(ls) - 1) : Stop(At(ls, i)) }
    IN  IF hits = {} THEN Len(ls)
        ELSE CHOOSE i \in hits : \A j \in hits : i <= j

IsProjectsHeading(l) == l = "## Projects"

\* The Projects section: from the first line equal to "## Projects" to the
\* next heading of level 1 or 2; SectionStart is the number of lines when
\* there is no such line.
SectionStart(ls) == FirstAfter(ls, -1, IsProjectsHeading)

SectionEnd(ls) == FirstAfter(ls, SectionStart(ls), IsLevel12)

\* The entries of the Projects section in document order, each the lines from
\* its level-3 heading to the next heading of level 1, 2 or 3.
RECURSIVE EntriesFrom(_, _)
EntriesFrom(ls, i) ==
    IF i >= SectionEnd(ls) THEN <<>>
    ELSE IF HasPrefix(At(ls, i), "### ")
         THEN <<SubSeq(ls, i + 1, FirstAfter(ls, i, IsLevel123))>>
                  \o EntriesFrom(ls, i + 1)
         ELSE EntriesFrom(ls, i + 1)

Entries(ls) == EntriesFrom(ls, SectionStart(ls) + 1)

EntriesExcept(ls, name) ==
    LET Other(e) == e[1] # "### " \o name
    IN  SelectSeq(Entries(ls), Other)

NoDuplicateTitles(ls) ==
    \A i, j \in 1..Len(Entries(ls)) :
        i # j => Entries(ls)[i][1] # Entries(ls)[j][1]

\* The lines of the entry the last call rendered.
entryLines == Split(formatProjectEntry(projectName, content), "\n")

\* The last call replaced an existing entry.
replaced == calls > 0 /\ replacesEntry(lines, insertIndex)

\* ------------------------------------------------------------------ claims

\* C1: merging the same (title, body) a second time into the lines a merge
\* produced gives the same lines again.
MergeIdempotent ==
    calls > 0 => MergeEntry(newLines, projectName, content) = newLines

\* C1 witness: a merge that replaced an existing entry by different lines.
MergeIdempotentWitness ==
    /\ replaced
    /\ newLines # lines
    /\ MergeEntry(newLines, projectName, content) = newLines

\* C2: a merge of title A leaves every entry of the Projects section whose
\* title is another string in place: same lines, same order.
OtherEntriesKept ==
    calls > 0 =>
        EntriesExcept(scanned, projectName) = EntriesExcept(newLines, projectName)

\* The scenario's merge was the last call.
ScenarioMerged ==
    /\ calls > 0
    /\ scanned = ScenarioDoc
    /\ projectName = "Alpha"
    /\ content = "new body"

\* C3 as stated: the scenario's result keeps the blank line before "## Notes".
ScenarioKeepsBlankLine ==
    ScenarioMerged =>
        newLines = << "# Today", "", "## Projects", "", "### Alpha", "new body",
                      "", "## Notes" >>

\* C3: merging "Alpha" with body "new body" into the scenario's lines replaces
\* the whole old entry, its closing blank line included, and keeps "## Notes".
ScenarioReplacesEntry ==
    ScenarioMerged =>
        newLines = << "# Today", "", "## Projects", "", "### Alpha", "new body",
                      "## Notes" >>

\* C3 witness: the scenario's merge has run.
ScenarioWitness == ScenarioMerged /\ replaced

\* C4: an entry is replaced only when its heading line is exactly
\* "### <title>".
ReplacedTitleIsExact ==
    replaced => At(lines, insertIndex) = "### " \o projectName

\* C5: a replacement removes the lines from the entry's heading up to the
\* next heading of level 1, 2 or 3 and nothing else.
ReplacedRangeEndsAtHeading ==
    replaced =>
        newLines = SubSeq(lines, 1, insertIndex) \o entryLines
                       \o SubSeq(lines, FirstAfter(lines, insertIndex, IsLevel123) + 1,
                                 Len(lines))

\* C6: a note that starts without duplicate titles in its Projects section
\* has none after any number of merges.
NoDuplicatesAfterMerges ==
    (calls > 0 /\ NoDuplicateTitles(ScanLines(initial))) =>
        NoDuplicateTitles(newLines)

\* C7: without a line "## Projects" the result is the original lines, a blank
\* line, "## Projects", a blank line and the entry, with one Projects heading
\* and one entry of the title.
SectionAutoCreated ==
    (calls > 0 /\ \A i \in 1..Len(scanned) : scanned[i] # "## Projects") =>
        /\ newLines = scanned \o << "", "## Projects", "" >> \o entryLines
        /\ Cardinality({ i \in 1..Len(newLines) : newLines[i] = "## Projects" }) = 1
        /\ Entries(newLines) = << entryLines >>

\* C8: the section heading is the first line equal to "## Projects"; without
\* one, a new section is appended.
SectionFoundByExactLine ==
    calls > 0 =>
        IF \E i \in 1..Len(scanned) : scanned[i] = "## Projects"
        THEN lines = scanned /\ projectsIndex = SectionStart(scanned)
        ELSE lines = scanned \o << "", "## Projects", "" >>

\* The Projects section the last call merged into has no entry of the title.
TitleAbsent ==
    /\ calls > 0
    /\ SectionStart(lines) < Len(lines)
    /\ \A i \in (SectionStart(lines) + 1)..(SectionEnd(lines) - 1) :
           At(lines, i) # "### " \o projectName

\* C9: when the section has no entry of the title, the entry goes right
\* before the first level-1 or level-2 heading after the Projects heading, or
\* to the end, and the original lines stay around it.
NewEntryBeforeNextSection ==
    TitleAbsent =>
        newLines = SubSeq(lines, 1, SectionEnd(lines)) \o entryLines
                       \o SubSeq(lines, SectionEnd(lines) + 1, Len(lines))

\* C10: the bytes of the file before and after the entry are the bytes that
\* were there, up to and including the end of the file.
OutsideBytesKept ==
    calls > 0 =>
        LET head == SubSeq(newLines, 1, Min(insertIndex, Len(scanned)))
            tail == SubSeq(newLines, insertIndex + Len(entryLines) + 1, Len(newLines))
        IN  /\ HasPrefix(prev, Join(head, "\n"))
            /\ tail # <<>> => HasSuffix(prev, Join(tail, "\n"))

\* C11: the merge is total.  Every index of the last call is inside `lines`:
\* the Projects heading is a line, the insertion point lies after it and at
\* most at the end, a replaced range is not empty and ends at most at the
\* end, and the lines written are the lines outside the range and the entry.
MergeStaysInBounds ==
    calls > 0 =>
        /\ 0 <= projectsIndex /\ projectsIndex < Len(lines)
        /\ projectsIndex < insertIndex /\ insertIndex <= Len(lines)
        /\ replaced =>
               /\ insertIndex < entryEnd(lines, insertIndex)
               /\ entryEnd(lines, insertIndex) <= Len(lines)
        /\ Len(newLines) =
               Len(lines) + Len(entryLines)
                   - IF replaced THEN entryEnd(lines, insertIndex) - insertIndex ELSE 0

\* An entry whose heading is the last line of the document was replaced.
MergeAtLastLine ==
    /\ replaced
    /\ insertIndex = Len(lines) - 1
    /\ Len(newLines) = Len(lines) - 1 + Len(entryLines)

\* ------------------------------------------------------ claims on detection

\* The stems of the two days under each catalog format.
stems == [f \in Formats |-> { Stem(f, d) : d \in {today, earlier} }]

\* The sample of the last detection is not empty and all its stems are
\* renderings under the format P.
SampleRenderedUnder(P) ==
    /\ ran = "init"
    /\ dateFiles # <<>>
    /\ \A i \in 1..Len(dateFiles) : dateFiles[i] \in stems[P]

\* C12: a sample whose stems are all renderings under one format other than
\* DD-MM-YYYY and MM-DD-YYYY is detected as that format.
InferenceRoundTrip ==
    \A P \in Formats \ {"DD-MM-YYYY", "MM-DD-YYYY"} :
        SampleRenderedUnder(P) => detectErr = "" /\ detectedFormat = P

\* C13: detection is deterministic: the format it returned is the only format
\* it can return for the directory.
DetectionDeterministic ==
    ran = "init" =>
        \A r \in DetectDateFormat(dirExists, files) : r.format = detectedFormat

\* The highest count of the last detection.
maxCount == CHOOSE n \in 0..Len(dateFiles) :
                /\ \A f \in Formats : patternCounts[f] <= n
                /\ \E f \in Formats : patternCounts[f] = n

\* C14: when formats share the highest count, the one declared first in the
\* catalog is returned.
TieGoesToFirstDeclared ==
    ran = "init" /\ detectErr = "" /\ maxCount > 0 =>
        \E i \in 1..Len(formats) :
            /\ detectedFormat = formats[i]
            /\ \A j \in 1..(i - 1) : patternCounts[formats[j]] < maxCount

\* The number of ambiguous files whose first, whose second number exceeds 12.
firstSlotEvidence == Len(SelectSeq(ambiguousFiles, firstOver12))

secondSlotEvidence == Len(SelectSeq(ambiguousFiles, secondOver12))

\* The format the ambiguous files were added to.
resolvedTo ==
    CHOOSE f \in Formats : patternCounts[f] = countOf(votes, f) + Len(ambiguousFiles)

\* C15: the ambiguous stems go to DD-MM-YYYY exactly when more of them have a
\* first number above 12 than a second number above 12, in every other case
\* to MM-DD-YYYY; a sample of ambiguous stems only is detected as that format.
AmbiguousResolvedByEvidence ==
    ran = "init" /\ ambiguousFiles # <<>> =>
        /\ resolvedTo = IF firstSlotEvidence > secondSlotEvidence
                        THEN "DD-MM-YYYY" ELSE "MM-DD-YYYY"
        /\ Len(ambiguousFiles) = Len(dateFiles) => detectedFormat = resolvedTo

\* Equal evidence of one stem each went to MM-DD-YYYY.
AmbiguousTieWitness ==
    /\ ran = "init"
    /\ Len(ambiguousFiles) = Len(dateFiles)
    /\ firstSlotEvidence = 1 /\ secondSlotEvidence = 1
    /\ detectedFormat = "MM-DD-YYYY"

\* The sample of the last detection is not empty and no stem matched.
NoStemMatched ==
    /\ ran = "init"
    /\ dateFiles # <<>>
    /\ \A i \in 1..Len(dateFiles) :
           /\ \A p \in patterns : ~MatchString(p[1], dateFiles[i])
           /\ ~MatchString(ambiguousPattern, dateFiles[i])

\* C16: a sample no stem of which matches gives an error and no format.
NoMatchIsError == NoStemMatched => detectErr # "" /\ detectedFormat = ""

\* The directory is missing or holds no file whose name ends in .md.
EmptySample ==
    \/ ~dirExists
    \/ \A path \in DOMAIN files : Index(path, "/") # -1 \/ ~HasSuffix(path, ".md")

\* C17: on an empty sample detection returns an error and no format, and the
\* date format the command was given is kept.
EmptySampleIsError ==
    ran = "init" /\ EmptySample =>
        detectErr # "" /\ detectedFormat = "" /\ dateFormat = configured

\* The directory exists and holds files, none of them a note at its top.
EmptySampleWitness ==
    /\ ran = "init"
    /\ dirExists /\ DOMAIN files # {}
    /\ EmptySample
    /\ detectErr = "no daily note files found"

\* The total of a format: its votes, and all ambiguous stems when it won
\* their sub-vote.
total(f) ==
    countOf(votes, f)
        + IF f = (IF firstSlotEvidence > secondSlotEvidence
                  THEN "DD-MM-YYYY" ELSE "MM-DD-YYYY")
          THEN Len(ambiguousFiles) ELSE 0

\* C18: the counts are the totals, and the returned format has a total at
\* least as high as every other format.
PluralityWins ==
    ran = "init" /\ detectErr = "" =>
        /\ \A f \in Formats : patternCounts[f] = total(f)
        /\ \A f \in Formats : total(detectedFormat) >= total(f)

\* The ambiguous stems outvoted a regular format.
PluralityWitness ==
    /\ ran = "init"
    /\ Len(ambiguousFiles) = 2
    /\ \E f \in Formats : countOf(votes, f) = 1
    /\ detectedFormat = "DD-MM-YYYY"
    /\ total("DD-MM-YYYY") = 2 /\ total("MM-DD-YYYY") = 0

\* The sum of g over the elements of S.
RECURSIVE SumOver(_, _)
SumOver(g, S) ==
    IF S = {} THEN 0
    ELSE LET x == CHOOSE y \in S : TRUE
         IN  g[x] + SumOver(g, S \ {x})

\* C19: a stem that voted for a regular pattern is not among the ambiguous
\* stems, and the counts add up to at most the number of stems.
OneVotePerStem ==
    ran = "init" =>
        /\ \A i \in 1..Len(votes) :
               votes[i] # "" =>
                   \A j \in 1..Len(ambiguousFiles) : ambiguousFiles[j] # dateFiles[i]
        /\ SumOver(patternCounts, Formats) <= Len(dateFiles)

\* A regular vote, an ambiguous stem and a stem without a vote in one sample.
OneVotePerStemWitness ==
    /\ ran = "init"
    /\ Len(dateFiles) = 3
    /\ Len(ambiguousFiles) = 1
    /\ SumOver(patternCounts, Formats) = 2

\* ------------------------------------------------------------ claims on log

\* C20: when a note of today exists under a catalog format, log merges the
\* entry into a note that was there and gives no error.
LogToleratesDrift ==
    [][ (\E f \in Formats : todayPath[f] \in DOMAIN files) =>
            /\ logErr' = ""
            /\ notePath' \in DOMAIN files
            /\ files'[notePath'] # files[notePath'] ]_vars

\* No note of today is in the directory, under no catalog format.
NoNoteOfToday == \A f \in Formats : todayPath[f] \notin DOMAIN files

\* C21: without a note of today and without --create-note, log gives an error
\* and leaves the directory and every file as they are.
LogWithoutNoteIsSafe ==
    [][ ran = "" /\ NoNoteOfToday /\ ~createNote =>
            /\ logErr' # ""
            /\ files' = files
            /\ dirExists' = dirExists ]_vars

\* log refused to run in a directory that holds notes of other days.
LogRefusedWitness ==
    /\ ran = "log"
    /\ ~createNote
    /\ NoNoteOfToday
    /\ DOMAIN files # {}
    /\ logErr = "daily note does not exist"

\* The formats in the order the patterns of detection are written down, the
\* two formats of the ambiguous shape after them.
detectionOrder ==
    << "YYYY-MM-DD-dddd", "YYYY-MM-DD dddd", "YYYY-MM-DD", "YYYY/MM/DD",
       "MMMM DD, YYYY", "DD MMMM YYYY", "YY-MM-DD", "MM-DD-YY", "DD-MM-YYYY",
       "MM-DD-YYYY" >>

\* C22: FindExistingDailyNote returns a path exactly when a note of today
\* exists under a catalog format, and then the path of the format that comes
\* first in the order of detection.
FoundIsFirstInDetectionOrder ==
    [][ ran = "" =>
            IF NoNoteOfToday THEN foundPath' = ""
            ELSE \E i \in 1..Len(detectionOrder) :
                     /\ foundPath' = todayPath[detectionOrder[i]]
                     /\ foundPath' \in DOMAIN files
                     /\ \A j \in 1..(i - 1) :
                            todayPath[detectionOrder[j]] \notin DOMAIN files ]_vars

\* ------------------------------------------- claims on the shared note file

\* Both invocations read the whole file and wrote.
BothMerged ==
    \A p \in Procs : procs[p].pc = "returned" /\ procs[p].ret = "nil" /\ ~procs[p].readErr

\* The note file holds the entry of the invocation p.
HasEntryOf(p) ==
    \E i \in 1..Len(Entries(ScanLines(note))) :
        /\ Entries(ScanLines(note))[i][1] = "### " \o procs[p].name
        /\ Len(Entries(ScanLines(note))[i]) > 1
        /\ Entries(ScanLines(note))[i][2] \o "\n\n" = procs[p].body

\* C23: when both invocations read the file before either wrote, the file
\* ends with the entry of the last writer and without the other's; when one
\* ran after the other, it ends with both entries.
LostUpdateOnlyWhenConcurrent ==
    BothMerged =>
        /\ (\A p \in Procs : procs[p].lines = ScanLines(initial)) =>
               /\ HasEntryOf(order[2])
               /\ ~HasEntryOf(order[1])
        /\ order[1] \in procs[order[2]].over =>
               \A p \in Procs : HasEntryOf(p)

\* C24: another program reads from the note file the whole content before a
\* merge or the whole content after one.
ReaderSeesWholeDocument == seen = initial \/ seen \in wrote

\* C25: an invocation that could not open the file or could not read it to
\* its end returns the error and does not write.
ReadErrorStopsWrite ==
    \A p \in Procs :
        procs[p].ret = "open error" \/ procs[p].readErr =>
            /\ procs[p].pc # "truncated"
            /\ procs[p].ret # "nil"
            /\ \A i \in 1..Len(order) : order[i] # p

\* --------------------------------------------------- claims on the commands

\* A note of today holds an entry with the title name.
TodayHasEntry(name) ==
    \E f \in DOMAIN todayPath :
        /\ todayPath[f] \in DOMAIN files
        /\ \E i \in 1..Len(Entries(ScanLines(files[todayPath[f]]))) :
               Entries(ScanLines(files[todayPath[f]]))[i][1] = "### " \o name

\* C26: when a command over several repositories has ended, today's note
\* holds an entry for every repository that was counted as logged.
EveryLoggedRepoHasEntry ==
    runs > 0 /\ repos = << >> =>
        \A i \in 1..Len(logged) : TodayHasEntry(logged[i])

\* C28: over the commands of a day at most one note file is created, and
\* never at a path where a file was.
CreatesOnlyMissingNote ==
    /\ Len(created) <= 1
    /\ \A i \in 1..Len(created) : ~created[i].existed

\* C27: the detector of init and the detector of the vault agree: for a stem
\* detectDateFormatFromSingleFile gave a format for, detectDateFormatFromFiles
\* on that stem alone returns the same format.
SingleFileAgreesWithVault ==
    sampleIndex # 0 => detectedFormat = detectedFormats[sampleIndex]

====
